---- MODULE Spec2Model ----
(***************************************************************************)
(* Sandboxed code execution engine of ai-devhub:                           *)
(*   backend/src/services/sandbox.ts   SandboxService.executeCode and      *)
(*                                     SandboxService.runInContainer       *)
(*   services/supabase (part_005)      executionDb.create / update         *)
(*   types (part_003)                  SUPPORTED_LANGUAGES                 *)
(*                                                                         *)
(* Every `await` of the source is a suspension point: the code between two *)
(* awaits runs atomically (one JavaScript job) and is one action here.     *)
(* The timeout timer of runInContainer is a macrotask that is never        *)
(* cleared, so its callback may run at any suspension point after it was   *)
(* armed.  The container substrate (docker) and the Record Store           *)
(* (supabase) are external: each call to them either succeeds or raises.   *)
(***************************************************************************)
EXTENDS Integers, Sequences, FiniteSets, TLC

\* ------------------------------------------------------- program constants
TimeoutExitCode == 124
FailedExitCode == -1
OutputCeiling == 50000
MAX_TIMEOUT_MS == 30000

\* ------------------------------------------------------------------ inputs
\* Execution ids.  Each invocation of executeCode has its own locals, timer
\* and container; the state below is kept per id.
Execs == {"e1"}

\* The execution ids the Record Store and the service can hold state for; the
\* second one is used where two invocations run concurrently.
AllExecs == {"e1", "e2"}

\* A text is identified by the source text it is a prefix of and its length.
T(s, n) == [src |-> s, len |-> n]
Empty == T("", 0)

\* s.slice(0, n)
Slice(t, n) == IF t.len <= n THEN t ELSE T(t.src, n)

\* Messages of the errors the substrate raises (an Error may carry no message).
ErrMsgs == {Empty, T("docker error", 12), T("long docker error", 50001)}
\* Message of the error the Record Store raises.
DbErr == T("db error", 8)
\* What parseLogs yields for the harvested log buffer.
LogOutputs == {[stdout |-> T("out", 3), stderr |-> Empty],
               [stdout |-> Empty, stderr |-> T("err", 3)],
               [stdout |-> T("long out", 50001), stderr |-> Empty]}
\* Values of executeCode's timeoutMs argument.
TimeoutInputs == {1000, 30000, 40000}
\* Exit codes of a program that terminates on its own.
ExitCodes == {0, 1}
\* Memory samples (MB, already rounded) of a successful stats call.
MemSamples == {5}

\* A nullable column or value: Null, or Some(v).
Null == {}
Some(v) == {v}

NoRecord == [status |-> "absent"]
NoResult == [kind |-> "none"]
NoPending == [kind |-> "none"]
NoError == [kind |-> "none"]
NoLangConfig == [kind |-> "unset"]

TerminalStatuses == {"completed", "failed", "timeout", "killed"}

\* --------------------------------------------------- language registry
\* Own keys of the SUPPORTED_LANGUAGES object literal.
SUPPORTED_LANGUAGES ==
  [l \in {"python", "javascript", "typescript", "go", "rust"} |->
     [kind |-> "profile", language |-> l]]

\* Keys every object literal inherits from Object.prototype.
ObjectPrototypeKeys == {"constructor"}

\* Language identifiers handed to executeCode.
Languages == {"python", "cobol", "constructor"}

\* SUPPORTED_LANGUAGES[language]: a JavaScript property read, which walks the
\* prototype chain.  An inherited member is a truthy value with no `language`.
Lookup(lang) ==
  IF lang \in DOMAIN SUPPORTED_LANGUAGES THEN SUPPORTED_LANGUAGES[lang]
  ELSE IF lang \in ObjectPrototypeKeys
       THEN [kind |-> "inherited", language |-> "undefined"]
  ELSE [kind |-> "undefined"]

\* !langConfig is false
Truthy(v) == v.kind # "undefined"

\* The language resolves in the registry: it is one of its entries.
Resolves(lang) == lang \in DOMAIN SUPPORTED_LANGUAGES

\* getCommand(language, code): TRUE when the switch has a case for it,
\* FALSE when it reaches `default` and throws.
GetCommandOk(l) == l \in {"python", "javascript", "typescript", "go", "rust"}

UnsupportedErr(l) == T("Unsupported language", 22)

\* ------------------------------------------------------------------- state
VARIABLES
  record,      \* Record Store: the executions row of each id
  pc,          \* where each executeCode invocation is suspended
  language,    \* executeCode's language argument
  langConfig,  \* executeCode's langConfig
  cstate,      \* substrate: none | created | running | exited | removed
  cexit,       \* substrate: the exit code of an exited container
  timer,       \* runInContainer's setTimeout: unarmed | armed | fired
  timedOut,    \* runInContainer's timedOut flag
  race,        \* how the await of Promise.race ended: none|natural|waitError|timer
  locals,      \* runInContainer's stdout, stderr, memoryUsedMb, exitCode
  pending,     \* completion of runInContainer's try block, held by finally
  result,      \* executeCode's result
  thrown,      \* the error executeCode rejected with
  calls,       \* per invocation, the calls made to substrate and Record Store
  timeoutMs,   \* executeCode's timeoutMs argument
  armedMs,     \* the delay the setTimeout of runInContainer was given
  plogs,       \* parseLogs: the Buffer it is called with
  pframes,     \* parseLogs: the complete frames plogs starts with
  ptail,       \* parseLogs: the bytes of plogs after those frames
  pout,        \* parseLogs: Null, or Some of what it returned
  rpc,         \* route: where the handling of the request is suspended
  req,         \* route: the request (path, credentials, body)
  agentRow,    \* Record Store: the agents row of the caller
  ragent,      \* route: req.agent, Null or Some snapshot of the agents row
  body,        \* route: Null, or Some of what executeCodeSchema.parse gave
  rexec,       \* route: Null, or Some id of the execution it created
  rquota,      \* incrementQuota: Null, or Some executions_today it read
  resp,        \* route: the response sent
  rcalls,      \* route: the calls made to the Record Store
  handler,     \* route: how the promise of executeCode is consumed
  polled,      \* GET /executions/:id: Null, or Some status last read
  qpc,         \* quota: per request, where its handling is suspended
  qpath,       \* quota: per request, the route it is sent to
  qsnap,       \* quota: per request, req.agent (Null or Some agents row)
  qread,       \* quota: per request, the count incrementQuota read
  qbase,       \* quota: the agents row before the requests arrived
  requestCounts, \* rateLimit: the Map, per key Null or Some {count, resetAt}
  now,         \* rateLimit: Date.now()
  passed,      \* rateLimit: per key, next() calls in the current window
  arrived,     \* rateLimit: per key, requests handled in the current window
  remaining    \* rateLimit: Null, or Some X-RateLimit-Remaining last set

engineVars ==
  <<record, pc, language, langConfig, cstate, cexit, timer, timedOut,
    race, locals, pending, result, thrown, calls, timeoutMs, armedMs>>

parserVars == <<plogs, pframes, ptail, pout>>

quotaVars == <<qpc, qpath, qsnap, qread, qbase>>

limiterVars == <<requestCounts, now, passed, arrived, remaining>>

\* What neither the engine nor the submission routes touch.
asideVars == <<parserVars, quotaVars, limiterVars>>

routeVars ==
  <<rpc, req, agentRow, ragent, body, rexec, rquota, resp, rcalls, handler,
    polled>>

\* What the engine's steps leave alone.
otherVars == <<asideVars, routeVars>>

vars == <<engineVars, asideVars, routeVars>>

\* ------------------------------------------------------- pure code pieces
\* Mutant: executionDb.create persists nothing.
QueuedRecord_NotPersisted == NoRecord

\* executionDb.create: the row inserted for a new execution.
QueuedRecord ==
  [status |-> "queued", stdout |-> Null, stderr |-> Null,
   exit_code |-> Null, memory_used_mb |-> Null]

\* executionDb.update(id, data): the columns named in data are overwritten.
ApplyUpdate(rec, data) ==
  [f \in DOMAIN rec |-> IF f \in DOMAIN data THEN data[f] ELSE rec[f]]

\* Mutant: the exit code is not replaced when the run timed out.
BuildResult_NoTimeoutCode(l, to) ==
  [kind |-> "result", stdout |-> l.stdout, stderr |-> l.stderr,
   exitCode |-> l.exitCode,
   memoryUsedMb |-> l.memoryUsedMb, timedOut |-> to]

\* The object runInContainer returns.
BuildResult(l, to) ==
  [kind |-> "result", stdout |-> l.stdout, stderr |-> l.stderr,
   exitCode |-> IF to THEN TimeoutExitCode ELSE l.exitCode,
   memoryUsedMb |-> l.memoryUsedMb, timedOut |-> to]

\* inspection.State?.ExitCode ?? -1
InspectedExitCode(present, cs, ce) ==
  IF ~present THEN -1 ELSE IF cs = "exited" THEN ce ELSE 0

\* Mutant: a non-zero exit code is written as 'failed'.
TerminalStatus_ByExitCode(res) ==
  IF res.timedOut THEN "timeout"
  ELSE IF res.exitCode # 0 THEN "failed" ELSE "completed"

\* Mutant: a run cut by the timer is written as 'killed'.
TerminalStatus_Killed(res) == IF res.timedOut THEN "killed" ELSE "completed"

\* Mutant: the write after runInContainer returned always says 'completed'.
TerminalStatus_AlwaysCompleted(res) == "completed"

\* The status of the write after runInContainer returned.
TerminalStatus(res) == IF res.timedOut THEN "timeout" ELSE "completed"

\* The data of the write after runInContainer returned.
TerminalFields(res) ==
  [status |-> TerminalStatus(res),
   stdout |-> Some(Slice(res.stdout, OutputCeiling)),
   stderr |-> Some(Slice(res.stderr, OutputCeiling)),
   exit_code |-> Some(res.exitCode),
   memory_used_mb |-> Some(res.memoryUsedMb)]

\* Mutant: stderr is error.message without the fallback text.
FailedResult_NoFallback(err) ==
  [kind |-> "result", stdout |-> Empty, stderr |-> err,
   exitCode |-> FailedExitCode, memoryUsedMb |-> 0, timedOut |-> FALSE]

\* The result built by executeCode's catch block.
FailedResult(err) ==
  [kind |-> "result", stdout |-> Empty,
   stderr |-> IF err.len = 0 THEN T("Execution failed", 16) ELSE err,
   exitCode |-> FailedExitCode, memoryUsedMb |-> 0, timedOut |-> FALSE]

\* The data of the write of executeCode's catch block.
FailedFields(res) ==
  [status |-> "failed", stderr |-> Some(res.stderr), exit_code |-> Some(-1)]

\* Mutant: timedOut is a field of the singleton service.
FlagOf_Singleton(e) == "e1"

\* The timedOut the setTimeout callback of invocation e assigns: a local of
\* that invocation of runInContainer.
FlagOf(e) == e

\* Mutant: the requested timeout is used as it is.
ActualTimeout_NoClip(ms) == ms

\* Math.min(timeoutMs, LIMITS.MAX_TIMEOUT_MS)
ActualTimeout(ms) == IF ms < MAX_TIMEOUT_MS THEN ms ELSE MAX_TIMEOUT_MS

\* Mutant: a rejection of container.kill leaves the try block.
AfterKill_Surface(ok) == IF ok THEN "logs" ELSE "throw"

\* Where runInContainer goes when container.kill settles: its rejection is
\* caught by an empty catch.
AfterKill(ok) == "logs"

\* if (timedOut && container) in the catch of the race
KillNeeded(to, cs) == to /\ cs # "none"

\* Mutant: only a container that is still running is removed.
CleanupNeeded_OnlyRunning(cs) == cs = "running"

\* Mutant: remove is attempted even when no container was created.
CleanupNeeded_Always(cs) == TRUE

\* if (container) in finally
CleanupNeeded(cs) == cs # "none"

\* Where executeCode goes when the write of 'running' settles.
AfterRunningWrite(ok) == IF ok THEN "runInContainer" ELSE "thrown"

\* Mutant: the write of the catch block is made after a successful write too.
AfterTerminalWrite_FallThrough(ok) == "updFailed"

\* Where executeCode goes when the write in the try block settles: the await
\* is inside try, so its rejection enters the catch block.
AfterTerminalWrite(ok) == IF ok THEN "returned" ELSE "updFailed"

\* Mutant: a rejection of the write of the catch block is swallowed.
AfterFailedWrite_Swallow(ok) == "returned"

\* Where executeCode goes when the write in the catch block settles.
AfterFailedWrite(ok) == IF ok THEN "returned" ELSE "thrown"

\* ----------------------------------------------------------------- helpers
Call(op, arg, ok) == [op |-> op, arg |-> arg, ok |-> ok]

Logged(e, op, arg, ok) ==
  calls' = [calls EXCEPT ![e] = Append(@, Call(op, arg, ok))]

Finished(e) == pc[e] \in {"returned", "thrown"}

Return(v) == [kind |-> "return", value |-> v]
Throw(err) == [kind |-> "throw", err |-> err]

\* runInContainer settles with completion p and executeCode resumes: on a
\* return it issues the write of the try block, on a throw its catch block
\* builds the failed result and issues the write of the catch block.
Deliver(e, p) ==
  IF p.kind = "return"
  THEN /\ result' = [result EXCEPT ![e] = p.value]
       /\ pc' = [pc EXCEPT ![e] = "updTerminal"]
  ELSE /\ result' = [result EXCEPT ![e] = FailedResult(p.err)]
       /\ pc' = [pc EXCEPT ![e] = "updFailed"]

\* The try block of runInContainer completes with p: finally runs, awaiting
\* container.remove when there is a container.
Complete(e, p) ==
  /\ pending' = [pending EXCEPT ![e] = p]
  /\ IF CleanupNeeded(cstate[e])
     THEN /\ pc' = [pc EXCEPT ![e] = "finally"]
          /\ UNCHANGED result
     ELSE Deliver(e, p)

\* ---------------------------------------------------------------- parseLogs
\* A Buffer is a sequence of bytes, a string a sequence of code points.
\* What Buffer.toString('utf8') gives for a byte sequence that is not valid.
ReplacementChar == 65533

\* Buffer.toString('utf8'), for one- and two-byte sequences: every other byte
\* decodes to the replacement character.
RECURSIVE Utf8Decode(_)
Utf8Decode(b) ==
  IF b = <<>> THEN <<>>
  ELSE IF b[1] < 128 THEN <<b[1]>> \o Utf8Decode(Tail(b))
  ELSE IF b[1] \in 194..223 /\ Len(b) >= 2 /\ b[2] \in 128..191
       THEN <<(b[1] - 192) * 64 + (b[2] - 128)>> \o Utf8Decode(Tail(Tail(b)))
  ELSE <<ReplacementChar>> \o Utf8Decode(Tail(b))

\* logs.readUInt32BE(offset), offset counted from 0.
ReadUInt32BE(logs, offset) ==
  logs[offset + 1] * 16777216 + logs[offset + 2] * 65536
    + logs[offset + 3] * 256 + logs[offset + 4]

\* logs.slice(from, to), both counted from 0.
BufferSlice(logs, from, to) == SubSeq(logs, from + 1, to)

\* The while loop of parseLogs, from the given offset on.
RECURSIVE ParseLoop(_, _, _, _)
ParseLoop(logs, offset, stdout, stderr) ==
  IF ~(offset < Len(logs)) \/ offset + 8 > Len(logs)
  THEN [stdout |-> stdout, stderr |-> stderr]
  ELSE LET streamType == logs[offset + 1]
           size == ReadUInt32BE(logs, offset + 4)
       IN IF offset + 8 + size > Len(logs)
          THEN [stdout |-> stdout, stderr |-> stderr]
          ELSE LET data == Utf8Decode(BufferSlice(logs, offset + 8,
                                                  offset + 8 + size))
               IN ParseLoop(logs, offset + 8 + size,
                            IF streamType = 1 THEN stdout \o data ELSE stdout,
                            IF streamType = 2 THEN stderr \o data ELSE stderr)

\* parseLogs: the loop, then the fallback to the whole buffer as text.
ParseLogs(logs) ==
  LET r == ParseLoop(logs, 0, <<>>, <<>>)
  IN IF r.stdout = <<>> /\ r.stderr = <<>> /\ Len(logs) > 0
     THEN [stdout |-> Utf8Decode(logs), stderr |-> <<>>]
     ELSE r

\* The multiplexed stream the substrate sends: for each frame the selector,
\* three zero bytes, the payload length in four bytes, the payload.
UInt32BE(n) ==
  <<(n \div 16777216) % 256, (n \div 65536) % 256, (n \div 256) % 256, n % 256>>

EncodeFrame(f) == <<f.type, 0, 0, 0>> \o UInt32BE(Len(f.payload)) \o f.payload

RECURSIVE Encode(_)
Encode(frames) ==
  IF frames = <<>> THEN <<>>
  ELSE EncodeFrame(Head(frames)) \o Encode(Tail(frames))

\* Inputs of parseLogs: selectors 1 (stdout), 2 (stderr) and one other;
\* payloads empty, 'h', 'wo', and the two bytes of one two-byte character.
StreamTypes == {0, 1, 2}
Payloads == {<<>>, <<104>>, <<119, 111>>, <<195, 169>>}
Frames == [type : StreamTypes, payload : Payloads]
MaxFrames == 2
FrameSeqs == UNION {[1..n -> Frames] : n \in 0..MaxFrames}

\* What may follow the complete frames: nothing, three bytes of a header, a
\* header alone whose frame declares one byte, a header declaring two bytes
\* with one of them, and text that is no frame at all.
Tails ==
  {<<>>, <<1, 0, 0>>, <<2, 0, 0, 0, 0, 0, 0, 1>>,
   <<1, 0, 0, 0, 0, 0, 0, 2, 104>>, <<104, 105>>}

\* ------------------------------------------------------------------ routes
MAX_CODE_SIZE_KB == 100
MIN_TIMEOUT_MS == 1000

\* permissions.max_executions_per_day of the agents considered.
MaxExecutionsPerDay == 2

\* z.enum of executeCodeSchema.
LanguageEnum == {"python", "javascript", "typescript", "go", "rust"}

\* The two submission paths, as the router sees them.
Paths == {"/execute", "/execute/sync"}

\* The Authorization header: absent or not 'Bearer ', a key without the
\* 'aidh_' prefix, a well-formed key of no agent, the key of the agent.
Credentials == {"missing", "malformed", "unknown", "valid"}

\* code.length, around both ends of the accepted range.
CodeLengths == {0, 1, MAX_CODE_SIZE_KB * 1024, MAX_CODE_SIZE_KB * 1024 + 1}

\* timeout_ms: absent, or a number around both ends of the accepted range.
TimeoutFields ==
  {Null} \cup {Some(n) : n \in {MIN_TIMEOUT_MS - 1, MIN_TIMEOUT_MS,
                                MAX_TIMEOUT_MS, MAX_TIMEOUT_MS + 1}}

Requests ==
  [path : Paths, auth : Credentials, language : Languages,
   code : CodeLengths, timeout_ms : TimeoutFields]

NoRequest ==
  [path |-> "", auth |-> "", language |-> "", code |-> 0, timeout_ms |-> Null]

\* An agents row: status, permissions and quota.  stale says that
\* quota.last_reset is not today, storage_full that storage_used_mb has
\* reached storage_limit_mb.
Agent(st, can, today, stale, full) ==
  [status |-> st, can_execute_code |-> can,
   max_executions_per_day |-> MaxExecutionsPerDay,
   executions_today |-> today, stale |-> stale, storage_full |-> full]

DefaultAgent == Agent("active", TRUE, 0, FALSE, FALSE)

AgentRows ==
  {DefaultAgent,
   Agent("active", TRUE, MaxExecutionsPerDay - 1, FALSE, FALSE),
   Agent("active", TRUE, MaxExecutionsPerDay, FALSE, FALSE),
   Agent("active", TRUE, MaxExecutionsPerDay, TRUE, FALSE),
   Agent("active", FALSE, 0, FALSE, FALSE),
   Agent("active", FALSE, 1, TRUE, FALSE),
   Agent("active", TRUE, 0, FALSE, TRUE),
   Agent("suspended", TRUE, 0, FALSE, FALSE)}

\* req.path.includes('/execute') || req.path.includes('/sandbox')
IsSandboxPath(path) == path \in {"/execute", "/execute/sync"}

\* checkQuota's verdict on req.agent once the daily reset is done: the status
\* code it rejects with, or 0 when it calls next().
QuotaVerdict(path, a) ==
  IF IsSandboxPath(path) /\ ~a.can_execute_code THEN 403
  ELSE IF IsSandboxPath(path)
          /\ a.executions_today >= a.max_executions_per_day THEN 429
  ELSE IF a.storage_full THEN 429
  ELSE 0

\* Mutant: the schema lets every body through.
SchemaAccepts_Anything(r) == TRUE

\* executeCodeSchema.parse succeeds.
SchemaAccepts(r) ==
  /\ r.language \in LanguageEnum
  /\ r.code >= 1
  /\ r.code <= MAX_CODE_SIZE_KB * 1024
  /\ \A n \in r.timeout_ms : n >= MIN_TIMEOUT_MS /\ n <= MAX_TIMEOUT_MS

\* What executeCodeSchema.parse returns: timeout_ms defaults to the ceiling.
ParsedBody(r) ==
  [language |-> r.language, code |-> r.code,
   timeout_ms |-> IF r.timeout_ms = Null THEN MAX_TIMEOUT_MS
                  ELSE CHOOSE n \in r.timeout_ms : TRUE]

\* quota[field] = (quota[field] || 0) + 1
Incremented(n) == n + 1

NoResponse ==
  [code |-> 0, status |-> "", execution_id |-> Null, result |-> NoResult]

ErrorResponse(code) ==
  [code |-> code, status |-> "", execution_id |-> Null, result |-> NoResult]

\* The 202 of POST /execute.
AcceptedResponse(e) ==
  [code |-> 202, status |-> "queued", execution_id |-> Some(e),
   result |-> NoResult]

\* Mutant: the sync response always says 'completed'.
SyncResponse_AlwaysCompleted(e, row, res) ==
  [code |-> 200, status |-> "completed", execution_id |-> Some(e),
   result |-> res]

\* The 200 of POST /execute/sync: updatedExecution?.status || 'completed'
\* and the fields of the engine's result.
SyncResponse(e, row, res) ==
  [code |-> 200,
   status |-> IF row = NoRecord THEN "completed" ELSE row.status,
   execution_id |-> Some(e), result |-> res]

\* Mutant: POST /execute attaches no rejection handler.
AsyncConsumer_NoCatch == "then"

\* POST /execute consumes the promise of executeCode with .then().catch(),
\* POST /execute/sync awaits it inside try.
AsyncConsumer == "thenCatch"
SyncConsumer == "await"

\* ------------------------------------------------ quota under concurrency
\* The requests of one agent that are in flight together.
Reqs == {"r1", "r2"}

\* The agents rows they find: an active agent allowed to execute, with
\* nothing, one less than the limit, or the limit used, counted today or on
\* an earlier day.
QuotaRows ==
  {Agent("active", TRUE, n, stale, FALSE) :
     n \in {0, MaxExecutionsPerDay - 1, MaxExecutionsPerDay},
     stale \in BOOLEAN}

\* The quota object of row q written into row a.
WithQuota(a, q) ==
  [a EXCEPT !.executions_today = q.executions_today,
            !.stale = q.stale,
            !.storage_full = q.storage_full]

\* --------------------------------------------------------------- rateLimit
\* req.agent?.id || req.ip || 'anonymous': the limiter is mounted before
\* authentication, so the key is the caller's address.
Keys == {"10.0.0.1", "10.0.0.2"}

\* -------------------------------------------------------------------- Init
EngineIdle ==
  /\ record = [e \in AllExecs |-> NoRecord]
  /\ pc = [e \in AllExecs |-> "idle"]
  /\ language = [e \in AllExecs |-> ""]
  /\ langConfig = [e \in AllExecs |-> NoLangConfig]
  /\ cstate = [e \in AllExecs |-> "none"]
  /\ cexit = [e \in AllExecs |-> 0]
  /\ timer = [e \in AllExecs |-> "unarmed"]
  /\ timedOut = [e \in AllExecs |-> FALSE]
  /\ race = [e \in AllExecs |-> "none"]
  /\ locals = [e \in AllExecs |->
                 [stdout |-> Empty, stderr |-> Empty, memoryUsedMb |-> 0,
                  exitCode |-> 0]]
  /\ pending = [e \in AllExecs |-> NoPending]
  /\ result = [e \in AllExecs |-> NoResult]
  /\ thrown = [e \in AllExecs |-> NoError]
  /\ calls = [e \in AllExecs |-> <<>>]
  /\ timeoutMs = [e \in AllExecs |-> 0]
  /\ armedMs = [e \in AllExecs |-> Null]

\* parseLogs is not being called.
ParserIdle ==
  /\ plogs = <<>>
  /\ pframes = <<>>
  /\ ptail = <<>>
  /\ pout = Null

\* No request is being handled.
RouteIdle ==
  /\ rpc = "idle"
  /\ req = NoRequest
  /\ agentRow = DefaultAgent
  /\ ragent = Null
  /\ body = Null
  /\ rexec = Null
  /\ rquota = Null
  /\ resp = NoResponse
  /\ rcalls = <<>>
  /\ handler = "none"
  /\ polled = Null

\* No request is in the quota path.
QuotaIdle ==
  /\ qpc = [r \in Reqs |-> "idle"]
  /\ qpath = [r \in Reqs |-> ""]
  /\ qsnap = [r \in Reqs |-> Null]
  /\ qread = [r \in Reqs |-> Null]
  /\ qbase = DefaultAgent

\* The rate limiter has seen no request.
LimiterIdle ==
  /\ requestCounts = [k \in Keys |-> Null]
  /\ now = 0
  /\ passed = [k \in Keys |-> 0]
  /\ arrived = [k \in Keys |-> 0]
  /\ remaining = Null

AsideIdle == ParserIdle /\ QuotaIdle /\ LimiterIdle

Init == EngineIdle /\ AsideIdle /\ RouteIdle

\* ----------------------------------------------------------------- actions
\* The caller persists the execution before it invokes the engine.
CreateExecution(e) ==
  /\ record[e] = NoRecord
  /\ record' = [record EXCEPT ![e] = QueuedRecord]
  /\ UNCHANGED <<pc, language, langConfig, cstate, cexit, timer, timedOut,
                 race, locals, pending, result, thrown, calls,
                 timeoutMs, armedMs, otherVars>>

\* executeCode is called: the registry lookup, then the write of 'running'
\* is issued.
ExecuteCodeWith(e, lang, ms) ==
  /\ pc[e] = "idle"
  /\ language' = [language EXCEPT ![e] = lang]
  /\ timeoutMs' = [timeoutMs EXCEPT ![e] = ms]
  /\ langConfig' = [langConfig EXCEPT ![e] = Lookup(lang)]
  /\ IF ~Truthy(Lookup(lang))
     THEN /\ thrown' = [thrown EXCEPT ![e] = UnsupportedErr(lang)]
          /\ pc' = [pc EXCEPT ![e] = "thrown"]
     ELSE /\ pc' = [pc EXCEPT ![e] = "updRunning"]
          /\ UNCHANGED thrown
  /\ UNCHANGED <<record, cstate, cexit, timer, timedOut, race, locals,
                 pending, result, calls, armedMs, asideVars>>

\* A caller that has persisted the execution invokes executeCode directly,
\* with any language and timeout.
ExecuteCode(e) ==
  /\ record[e] # NoRecord
  /\ \E lang \in Languages, ms \in TimeoutInputs : ExecuteCodeWith(e, lang, ms)
  /\ UNCHANGED routeVars

\* The write of 'running' settles.  On success runInContainer is entered and
\* runs to its first await: getCommand is evaluated while the argument of
\* docker.createContainer is built.
UpdateRunning(e) ==
  /\ pc[e] = "updRunning"
  /\ \E ok \in BOOLEAN :
       /\ Logged(e, "update", "running", ok)
       /\ record' = IF ok
                    THEN [record EXCEPT
                            ![e] = ApplyUpdate(@, [status |-> "running"])]
                    ELSE record
       /\ IF AfterRunningWrite(ok) = "thrown"
          THEN /\ thrown' = [thrown EXCEPT ![e] = DbErr]
               /\ pc' = [pc EXCEPT ![e] = "thrown"]
               /\ UNCHANGED <<pending, result>>
          ELSE /\ UNCHANGED thrown
               /\ IF GetCommandOk(langConfig[e].language)
                  THEN /\ pc' = [pc EXCEPT ![e] = "create"]
                       /\ UNCHANGED <<pending, result>>
                  ELSE Complete(e, Throw(UnsupportedErr(langConfig[e].language)))
  /\ UNCHANGED <<language, langConfig, cstate, cexit, timer, timedOut, race,
                 locals, timeoutMs, armedMs, otherVars>>

\* docker.createContainer settles.
CreateContainer(e) ==
  /\ pc[e] = "create"
  /\ \E ok \in BOOLEAN :
       /\ Logged(e, "create", "", ok)
       /\ IF ok
          THEN /\ cstate' = [cstate EXCEPT ![e] = "created"]
               /\ pc' = [pc EXCEPT ![e] = "start"]
               /\ UNCHANGED <<pending, result>>
          ELSE /\ UNCHANGED cstate
               /\ \E m \in ErrMsgs : Complete(e, Throw(m))
  /\ UNCHANGED <<record, language, langConfig, cexit, timer, timedOut, race,
                 locals, thrown, timeoutMs, armedMs, otherVars>>

\* container.start settles.  On success container.wait is called, the timer
\* is armed and the race is awaited.
Start(e) ==
  /\ pc[e] = "start"
  /\ \E ok \in BOOLEAN :
       /\ Logged(e, "start", "", ok)
       /\ IF ok
          THEN /\ cstate' = [cstate EXCEPT ![e] = "running"]
               /\ timer' = [timer EXCEPT ![e] = "armed"]
               /\ armedMs' = [armedMs EXCEPT
                                ![e] = Some(ActualTimeout(timeoutMs[e]))]
               /\ pc' = [pc EXCEPT ![e] = "race"]
               /\ UNCHANGED <<pending, result>>
          ELSE /\ UNCHANGED <<cstate, timer, armedMs>>
               /\ \E m \in ErrMsgs : Complete(e, Throw(m))
  /\ UNCHANGED <<record, language, langConfig, cexit, timedOut, race, locals,
                 thrown, timeoutMs, otherVars>>

\* Substrate: the program terminates on its own.
ContainerExits(e) ==
  /\ cstate[e] = "running"
  /\ \E c \in ExitCodes :
       /\ cstate' = [cstate EXCEPT ![e] = "exited"]
       /\ cexit' = [cexit EXCEPT ![e] = c]
  /\ UNCHANGED <<record, pc, language, langConfig, timer, timedOut, race,
                 locals, pending, result, thrown, calls, timeoutMs, armedMs,
                 otherVars>>

\* Substrate: HostConfig.AutoRemove removes the container once it has exited.
AutoRemove(e) ==
  /\ cstate[e] = "exited"
  /\ cstate' = [cstate EXCEPT ![e] = "removed"]
  /\ UNCHANGED <<record, pc, language, langConfig, cexit, timer, timedOut,
                 race, locals, pending, result, thrown, calls,
                 timeoutMs, armedMs, otherVars>>

\* container.wait resolves first: the race is won by natural termination and
\* container.logs is called.
WaitResolves(e) ==
  /\ pc[e] = "race"
  /\ cstate[e] \in {"exited", "removed"}
  /\ Logged(e, "wait", "", TRUE)
  /\ race' = [race EXCEPT ![e] = "natural"]
  /\ pc' = [pc EXCEPT ![e] = "logs"]
  /\ UNCHANGED <<record, language, langConfig, cstate, cexit, timer, timedOut,
                 locals, pending, result, thrown, timeoutMs, armedMs,
                 otherVars>>

\* container.wait rejects first: the catch of the race finds timedOut false,
\* skips the kill, and container.logs is called.
WaitRejects(e) ==
  /\ pc[e] = "race"
  /\ Logged(e, "wait", "", FALSE)
  /\ race' = [race EXCEPT ![e] = "waitError"]
  /\ pc' = [pc EXCEPT ![e] = IF KillNeeded(timedOut[e], cstate[e])
                             THEN "kill" ELSE "logs"]
  /\ UNCHANGED <<record, language, langConfig, cstate, cexit, timer, timedOut,
                 locals, pending, result, thrown, timeoutMs, armedMs,
                 otherVars>>

\* The setTimeout callback runs: it sets timedOut and rejects timeoutPromise.
\* While the race is awaited this settles the race and the catch issues the
\* kill; later the rejection is ignored, the assignment is not.
TimerFires(e) ==
  /\ timer[e] = "armed"
  /\ timer' = [timer EXCEPT ![e] = "fired"]
  /\ timedOut' = [timedOut EXCEPT ![FlagOf(e)] = TRUE]
  /\ IF pc[e] = "race"
     THEN /\ race' = [race EXCEPT ![e] = "timer"]
          /\ pc' = [pc EXCEPT ![e] = IF KillNeeded(TRUE, cstate[e])
                                     THEN "kill" ELSE "logs"]
     ELSE UNCHANGED <<race, pc>>
  /\ UNCHANGED <<record, language, langConfig, cstate, cexit, locals, pending,
                 result, thrown, calls, timeoutMs, armedMs, otherVars>>

\* container.kill settles; a rejection is swallowed.  Killing a container
\* that is not running raises.
Kill(e) ==
  /\ pc[e] = "kill"
  /\ \E ok \in BOOLEAN :
       /\ ok => cstate[e] = "running"
       /\ Logged(e, "kill", "", ok)
       /\ IF ok
          THEN /\ cstate' = [cstate EXCEPT ![e] = "exited"]
               /\ cexit' = [cexit EXCEPT ![e] = 137]
          ELSE UNCHANGED <<cstate, cexit>>
       /\ IF AfterKill(ok) = "logs"
          THEN /\ pc' = [pc EXCEPT ![e] = "logs"]
               /\ UNCHANGED <<pending, result>>
          ELSE \E m \in ErrMsgs : Complete(e, Throw(m))
  /\ UNCHANGED <<record, language, langConfig, timer, timedOut, race, locals,
                 thrown, timeoutMs, armedMs, otherVars>>

\* container.logs settles; parseLogs splits the buffer; container.stats is
\* called.
Logs(e) ==
  /\ pc[e] = "logs"
  /\ \E ok \in BOOLEAN :
       /\ ok => cstate[e] # "removed"
       /\ Logged(e, "logs", "", ok)
       /\ IF ok
          THEN /\ \E o \in LogOutputs :
                    locals' = [locals EXCEPT ![e].stdout = o.stdout,
                                             ![e].stderr = o.stderr]
               /\ pc' = [pc EXCEPT ![e] = "stats"]
               /\ UNCHANGED <<pending, result>>
          ELSE /\ UNCHANGED locals
               /\ \E m \in ErrMsgs : Complete(e, Throw(m))
  /\ UNCHANGED <<record, language, langConfig, cstate, cexit, timer, timedOut,
                 race, thrown, timeoutMs, armedMs, otherVars>>

\* container.stats settles; a rejection is swallowed and leaves 0.
Stats(e) ==
  /\ pc[e] = "stats"
  /\ \E ok \in BOOLEAN :
       /\ ok => cstate[e] # "removed"
       /\ Logged(e, "stats", "", ok)
       /\ IF ok
          THEN \E m \in MemSamples :
                 locals' = [locals EXCEPT ![e].memoryUsedMb = m]
          ELSE UNCHANGED locals
  /\ pc' = [pc EXCEPT ![e] = "inspect"]
  /\ UNCHANGED <<record, language, langConfig, cstate, cexit, timer, timedOut,
                 race, pending, result, thrown, timeoutMs, armedMs,
                 otherVars>>

\* container.inspect settles; on success the result object is built from
\* the locals and the current value of timedOut.
Inspect(e) ==
  /\ pc[e] = "inspect"
  /\ \E ok \in BOOLEAN :
       /\ ok => cstate[e] # "removed"
       /\ Logged(e, "inspect", "", ok)
       /\ IF ok
          THEN \E present \in BOOLEAN :
                 LET code == InspectedExitCode(present, cstate[e], cexit[e])
                     l == [locals[e] EXCEPT !.exitCode = code]
                 IN /\ locals' = [locals EXCEPT ![e] = l]
                    /\ Complete(e, Return(BuildResult(l, timedOut[e])))
          ELSE /\ UNCHANGED locals
               /\ \E m \in ErrMsgs : Complete(e, Throw(m))
  /\ UNCHANGED <<record, language, langConfig, cstate, cexit, timer, timedOut,
                 race, thrown, timeoutMs, armedMs, otherVars>>

\* container.remove({force: true}) settles in finally; a rejection is
\* swallowed.  Then runInContainer settles with the completion of its try
\* block.
Remove(e) ==
  /\ pc[e] = "finally"
  /\ \E ok \in BOOLEAN :
       /\ ok => cstate[e] # "removed"
       /\ Logged(e, "remove", "", ok)
       /\ cstate' = IF ok THEN [cstate EXCEPT ![e] = "removed"] ELSE cstate
  /\ Deliver(e, pending[e])
  /\ UNCHANGED <<record, language, langConfig, cexit, timer, timedOut, race,
                 locals, pending, thrown, timeoutMs, armedMs, otherVars>>

\* The write of the try block ('completed' or 'timeout') settles.
UpdateTerminal(e) ==
  /\ pc[e] = "updTerminal"
  /\ \E ok \in BOOLEAN :
       /\ Logged(e, "update", TerminalStatus(result[e]), ok)
       /\ record' = IF ok
                    THEN [record EXCEPT
                            ![e] = ApplyUpdate(@, TerminalFields(result[e]))]
                    ELSE record
       /\ IF AfterTerminalWrite(ok) = "returned"
          THEN /\ pc' = [pc EXCEPT ![e] = "returned"]
               /\ UNCHANGED result
          ELSE /\ result' = [result EXCEPT ![e] = FailedResult(DbErr)]
               /\ pc' = [pc EXCEPT ![e] = "updFailed"]
  /\ UNCHANGED <<language, langConfig, cstate, cexit, timer, timedOut, race,
                 locals, pending, thrown, timeoutMs, armedMs, otherVars>>

\* The write of the catch block ('failed') settles; nothing catches its
\* rejection.
UpdateFailed(e) ==
  /\ pc[e] = "updFailed"
  /\ \E ok \in BOOLEAN :
       /\ Logged(e, "update", "failed", ok)
       /\ record' = IF ok
                    THEN [record EXCEPT
                            ![e] = ApplyUpdate(@, FailedFields(result[e]))]
                    ELSE record
       /\ IF AfterFailedWrite(ok) = "returned"
          THEN /\ pc' = [pc EXCEPT ![e] = "returned"]
               /\ UNCHANGED thrown
          ELSE /\ thrown' = [thrown EXCEPT ![e] = DbErr]
               /\ pc' = [pc EXCEPT ![e] = "thrown"]
  /\ UNCHANGED <<language, langConfig, cstate, cexit, timer, timedOut, race,
                 locals, pending, result, timeoutMs, armedMs, otherVars>>

Next ==
  \E e \in Execs :
    \/ CreateExecution(e)
    \/ ExecuteCode(e)
    \/ UpdateRunning(e)
    \/ CreateContainer(e)
    \/ Start(e)
    \/ ContainerExits(e)
    \/ AutoRemove(e)
    \/ WaitResolves(e)
    \/ WaitRejects(e)
    \/ TimerFires(e)
    \/ Kill(e)
    \/ Logs(e)
    \/ Stats(e)
    \/ Inspect(e)
    \/ Remove(e)
    \/ UpdateTerminal(e)
    \/ UpdateFailed(e)

Spec == Init /\ [][Next]_vars

\* The steps executeCode takes once the awaited call settles.
EngineStep(e) ==
  \/ UpdateRunning(e)
  \/ CreateContainer(e)
  \/ Start(e)
  \/ Kill(e)
  \/ Logs(e)
  \/ Stats(e)
  \/ Inspect(e)
  \/ Remove(e)
  \/ UpdateTerminal(e)
  \/ UpdateFailed(e)

\* Every call the engine awaits settles and an armed timer fires; the
\* program in the container need not ever exit.
LiveSpec ==
  /\ Spec
  /\ \A e \in Execs : WF_vars(EngineStep(e)) /\ WF_vars(TimerFires(e))

\* ------------------------------------------- two invocations at once
\* A caller that has persisted the execution invokes executeCode.
PairExecute(e) ==
  /\ record[e] # NoRecord
  /\ ExecuteCodeWith(e, "python", MAX_TIMEOUT_MS)
  /\ UNCHANGED routeVars

\* The environment considered for two concurrent invocations: the Record
\* Store writes, createContainer, wait, kill and logs may fail, with one
\* error text; the program prints 'out' and exits 0 when it exits.
PairEnv(e) ==
  /\ locals[e].stdout.len <= 3
  /\ cexit[e] # 1
  /\ pending[e].kind = "throw" => pending[e].err.len = 12
  /\ \A i \in 1..Len(calls[e]) :
       calls[e][i].ok
         \/ calls[e][i].op \in {"update", "create", "wait", "kill", "logs"}

PairNext ==
  \E e \in AllExecs :
    \/ CreateExecution(e) /\ PairEnv(e)'
    \/ PairExecute(e) /\ PairEnv(e)'
    \/ UpdateRunning(e) /\ PairEnv(e)'
    \/ CreateContainer(e) /\ PairEnv(e)'
    \/ Start(e) /\ PairEnv(e)'
    \/ ContainerExits(e) /\ PairEnv(e)'
    \/ AutoRemove(e) /\ PairEnv(e)'
    \/ WaitResolves(e) /\ PairEnv(e)'
    \/ WaitRejects(e) /\ PairEnv(e)'
    \/ TimerFires(e) /\ PairEnv(e)'
    \/ Kill(e) /\ PairEnv(e)'
    \/ Logs(e) /\ PairEnv(e)'
    \/ Stats(e) /\ PairEnv(e)'
    \/ Inspect(e) /\ PairEnv(e)'
    \/ Remove(e) /\ PairEnv(e)'
    \/ UpdateTerminal(e) /\ PairEnv(e)'
    \/ UpdateFailed(e) /\ PairEnv(e)'

PairSpec == Init /\ [][PairNext]_vars

\* ------------------------------------------------- parseLogs on its own
\* parseLogs is about to be called on a buffer of complete frames and a tail.
ParseInit ==
  /\ EngineIdle
  /\ RouteIdle
  /\ QuotaIdle
  /\ LimiterIdle
  /\ pframes \in FrameSeqs
  /\ ptail \in Tails
  /\ plogs = Encode(pframes) \o ptail
  /\ pout = Null

ParseLogsCall ==
  /\ pout = Null
  /\ pout' = Some(ParseLogs(plogs))
  /\ UNCHANGED <<engineVars, routeVars, quotaVars, limiterVars, plogs,
                 pframes, ptail>>

ParseNext == ParseLogsCall

ParseSpec == ParseInit /\ [][ParseNext]_vars

\* ---------------------------------------------- the two submission routes
\* A call to the Record Store and whether it succeeded.  activityDb.log never
\* rejects: it only logs the error it gets.
RLogged(op, ok) == rcalls' = Append(rcalls, [op |-> op, ok |-> ok])

\* res.status(code).json(...): the handling of the request ends.
Reply(r) == resp' = r /\ rpc' = "done"

\* checkQuota's checks on req.agent, then, through next(), the route handler
\* up to its first await: the body is parsed and executionDb.create issued.
Admit(a) ==
  IF QuotaVerdict(req.path, a) # 0
  THEN Reply(ErrorResponse(QuotaVerdict(req.path, a))) /\ UNCHANGED body
  ELSE IF ~SchemaAccepts(req)
  THEN Reply(ErrorResponse(400)) /\ UNCHANGED body
  ELSE /\ body' = Some(ParsedBody(req))
       /\ rpc' = "create"
       /\ UNCHANGED resp

\* A request arrives: authenticateAgent examines the Authorization header
\* and looks the key up.
Request(r) ==
  /\ rpc = "idle"
  /\ req' = r
  /\ IF r.auth \in {"missing", "malformed"}
     THEN Reply(ErrorResponse(401))
     ELSE rpc' = "authFind" /\ UNCHANGED resp
  /\ UNCHANGED <<agentRow, ragent, body, rexec, rquota, rcalls, handler,
                 polled, engineVars, asideVars>>

\* agentDb.findByApiKeyHash settles.
AuthFind ==
  /\ rpc = "authFind"
  /\ \E ok \in BOOLEAN :
       /\ RLogged("agents.findByApiKeyHash", ok)
       /\ IF ~ok THEN Reply(ErrorResponse(500)) /\ UNCHANGED ragent
          ELSE IF req.auth = "unknown"
          THEN Reply(ErrorResponse(401)) /\ UNCHANGED ragent
          ELSE IF agentRow.status # "active"
          THEN Reply(ErrorResponse(403)) /\ UNCHANGED ragent
          ELSE /\ ragent' = Some(agentRow)
               /\ rpc' = "authTouch"
               /\ UNCHANGED resp
  /\ UNCHANGED <<req, agentRow, body, rexec, rquota, handler, polled,
                 engineVars, asideVars>>

\* agentDb.updateLastActive settles.
AuthTouch ==
  /\ rpc = "authTouch"
  /\ \E ok \in BOOLEAN :
       /\ RLogged("agents.updateLastActive", ok)
       /\ IF ok THEN rpc' = "authLog" /\ UNCHANGED resp
          ELSE Reply(ErrorResponse(500))
  /\ UNCHANGED <<req, agentRow, ragent, body, rexec, rquota, handler, polled,
                 engineVars, asideVars>>

\* activityDb.log of authenticateAgent settles; next() enters checkQuota,
\* which resets a stale daily counter before it checks anything.
AuthLog ==
  /\ rpc = "authLog"
  /\ RLogged("activity.log", TRUE)
  /\ \E a \in ragent :
       IF a.stale
       THEN /\ ragent' = Some([a EXCEPT !.executions_today = 0,
                                        !.stale = FALSE])
            /\ rpc' = "quotaReset"
            /\ UNCHANGED <<resp, body>>
       ELSE Admit(a) /\ UNCHANGED ragent
  /\ UNCHANGED <<req, agentRow, rexec, rquota, handler, polled,
                 engineVars, asideVars>>

\* agentDb.update(agent.id, { quota }) of the daily reset settles.
QuotaReset ==
  /\ rpc = "quotaReset"
  /\ \E ok \in BOOLEAN, a \in ragent :
       /\ RLogged("agents.update.reset", ok)
       /\ IF ok
          THEN /\ agentRow' = [agentRow EXCEPT
                                 !.executions_today = a.executions_today,
                                 !.stale = a.stale,
                                 !.storage_full = a.storage_full]
               /\ Admit(a)
          ELSE /\ Reply(ErrorResponse(500))
               /\ UNCHANGED <<agentRow, body>>
  /\ UNCHANGED <<req, ragent, rexec, rquota, handler, polled,
                 engineVars, asideVars>>

\* executionDb.create settles.
Create ==
  /\ rpc = "create"
  /\ \E e \in Execs, ok \in BOOLEAN :
       /\ record[e] = NoRecord
       /\ RLogged("executions.create", ok)
       /\ IF ok
          THEN /\ record' = [record EXCEPT ![e] = QueuedRecord]
               /\ rexec' = Some(e)
               /\ rpc' = "incFind"
               /\ UNCHANGED resp
          ELSE /\ Reply(ErrorResponse(500))
               /\ UNCHANGED <<record, rexec>>
  /\ UNCHANGED <<req, agentRow, ragent, body, rquota, handler, polled,
                 pc, language, langConfig, cstate, cexit, timer, timedOut,
                 race, locals, pending, result, thrown, calls, timeoutMs,
                 armedMs, asideVars>>

\* incrementQuota: agentDb.findById settles.
IncFind ==
  /\ rpc = "incFind"
  /\ \E ok \in BOOLEAN :
       /\ RLogged("agents.findById", ok)
       /\ IF ok
          THEN /\ rquota' = Some(agentRow.executions_today)
               /\ rpc' = "incUpdate"
               /\ UNCHANGED resp
          ELSE Reply(ErrorResponse(500)) /\ UNCHANGED rquota
  /\ UNCHANGED <<req, agentRow, ragent, body, rexec, handler, polled,
                 engineVars, asideVars>>

\* incrementQuota: agentDb.update of the incremented quota settles.
IncUpdate ==
  /\ rpc = "incUpdate"
  /\ \E ok \in BOOLEAN, n \in rquota :
       /\ RLogged("agents.update.increment", ok)
       /\ IF ok
          THEN /\ agentRow' = [agentRow EXCEPT
                                 !.executions_today = Incremented(n)]
               /\ rpc' = "log"
               /\ UNCHANGED resp
          ELSE Reply(ErrorResponse(500)) /\ UNCHANGED agentRow
  /\ UNCHANGED <<req, ragent, body, rexec, rquota, handler, polled,
                 engineVars, asideVars>>

\* POST /execute: activityDb.log settles, executeCode is called and runs to
\* its first await, the handlers are attached, 202 is sent.
SubmitAsync ==
  /\ rpc = "log"
  /\ req.path = "/execute"
  /\ RLogged("activity.log", TRUE)
  /\ \E e \in rexec, b \in body :
       /\ ExecuteCodeWith(e, b.language, b.timeout_ms)
       /\ Reply(AcceptedResponse(e))
  /\ handler' = AsyncConsumer
  /\ UNCHANGED <<req, agentRow, ragent, body, rexec, rquota, polled>>

\* POST /execute/sync: activityDb.log settles, executeCode is called and
\* awaited.
SubmitSync ==
  /\ rpc = "log"
  /\ req.path = "/execute/sync"
  /\ RLogged("activity.log", TRUE)
  /\ \E e \in rexec, b \in body :
       ExecuteCodeWith(e, b.language, b.timeout_ms)
  /\ handler' = SyncConsumer
  /\ rpc' = "engine"
  /\ UNCHANGED <<req, agentRow, ragent, body, rexec, rquota, resp, polled>>

\* POST /execute/sync: the awaited executeCode settles; on a result
\* executionDb.findById is issued, a rejection goes to the catch block.
SyncSettles ==
  /\ rpc = "engine"
  /\ \E e \in rexec :
       /\ Finished(e)
       /\ IF pc[e] = "returned"
          THEN rpc' = "find" /\ UNCHANGED resp
          ELSE Reply(ErrorResponse(500))
  /\ UNCHANGED <<req, agentRow, ragent, body, rexec, rquota, rcalls, handler,
                 polled, engineVars, asideVars>>

\* POST /execute/sync: executionDb.findById settles and the response is sent.
SyncFind ==
  /\ rpc = "find"
  /\ \E ok \in BOOLEAN, e \in rexec :
       /\ RLogged("executions.findById", ok)
       /\ IF ok THEN Reply(SyncResponse(e, record[e], result[e]))
          ELSE Reply(ErrorResponse(500))
  /\ UNCHANGED <<req, agentRow, ragent, body, rexec, rquota, handler, polled,
                 engineVars, asideVars>>

\* GET /executions/:executionId by the holder of the handle: the status
\* executionDb.findById reads.
Poll ==
  /\ resp.code = 202
  /\ \E e \in rexec : polled' = Some(record[e].status)
  /\ UNCHANGED <<rpc, req, agentRow, ragent, body, rexec, rquota, resp,
                 rcalls, handler, engineVars, asideVars>>

\* A request to one of the two routes is about to arrive.
RouteInit ==
  /\ EngineIdle
  /\ AsideIdle
  /\ rpc = "idle"
  /\ req = NoRequest
  /\ agentRow \in AgentRows
  /\ ragent = Null
  /\ body = Null
  /\ rexec = Null
  /\ rquota = Null
  /\ resp = NoResponse
  /\ rcalls = <<>>
  /\ handler = "none"
  /\ polled = Null

RouteNext ==
  \/ \E r \in Requests : Request(r)
  \/ AuthFind
  \/ AuthTouch
  \/ AuthLog
  \/ QuotaReset
  \/ Create
  \/ IncFind
  \/ IncUpdate
  \/ SubmitAsync
  \/ SubmitSync
  \/ SyncSettles
  \/ SyncFind
  \/ Poll
  \/ \E e \in Execs :
       \/ UpdateRunning(e)
       \/ CreateContainer(e)
       \/ Start(e)
       \/ ContainerExits(e)
       \/ AutoRemove(e)
       \/ WaitResolves(e)
       \/ WaitRejects(e)
       \/ TimerFires(e)
       \/ Kill(e)
       \/ Logs(e)
       \/ Stats(e)
       \/ Inspect(e)
       \/ Remove(e)
       \/ UpdateTerminal(e)
       \/ UpdateFailed(e)

RouteSpec == RouteInit /\ [][RouteNext]_vars

\* ------------------------------- the quota path of concurrent requests
\* The steps of authenticateAgent, checkQuota and the route handler that
\* read or write the agent's quota, for several requests of one agent; every
\* Record Store call succeeds and every body is valid.
QAt(r, at) == qpc' = [qpc EXCEPT ![r] = at]

\* checkQuota's checks on req.agent; on next() the handler issues
\* executionDb.create.
QAdmit(r, a) ==
  QAt(r, IF QuotaVerdict(qpath[r], a) # 0 THEN "rejected" ELSE "create")

QArrive(r) ==
  /\ qpc[r] = "idle"
  /\ \E path \in Paths : qpath' = [qpath EXCEPT ![r] = path]
  /\ QAt(r, "authFind")
  /\ UNCHANGED <<qsnap, qread, qbase, engineVars, routeVars, parserVars,
                 limiterVars>>

\* agentDb.findByApiKeyHash settles: req.agent will be this row.
QAuthFind(r) ==
  /\ qpc[r] = "authFind"
  /\ qsnap' = [qsnap EXCEPT ![r] = Some(agentRow)]
  /\ QAt(r, "authTouch")
  /\ UNCHANGED <<qpath, qread, qbase, engineVars, routeVars, parserVars,
                 limiterVars>>

\* agentDb.updateLastActive settles: it writes last_active_at only.
QAuthTouch(r) ==
  /\ qpc[r] = "authTouch"
  /\ QAt(r, "authLog")
  /\ UNCHANGED <<qpath, qsnap, qread, qbase, engineVars, routeVars,
                 parserVars, limiterVars>>

\* activityDb.log settles; checkQuota resets a stale counter on req.agent
\* and issues the write of it, or checks at once.
QAuthLog(r) ==
  /\ qpc[r] = "authLog"
  /\ \E a \in qsnap[r] :
       IF a.stale
       THEN /\ qsnap' = [qsnap EXCEPT
                           ![r] = Some([a EXCEPT !.executions_today = 0,
                                                 !.stale = FALSE])]
            /\ QAt(r, "quotaReset")
       ELSE QAdmit(r, a) /\ UNCHANGED qsnap
  /\ UNCHANGED <<qpath, qread, qbase, engineVars, routeVars, parserVars,
                 limiterVars>>

\* agentDb.update(agent.id, { quota }) of the daily reset settles.
QQuotaReset(r) ==
  /\ qpc[r] = "quotaReset"
  /\ \E a \in qsnap[r] :
       /\ agentRow' = WithQuota(agentRow, a)
       /\ QAdmit(r, a)
  /\ UNCHANGED <<qpath, qsnap, qread, qbase, engineVars, parserVars,
                 limiterVars, rpc, req, ragent, body, rexec, rquota, resp,
                 rcalls, handler, polled>>

\* executionDb.create settles; incrementQuota issues agentDb.findById.
QCreate(r) ==
  /\ qpc[r] = "create"
  /\ QAt(r, "incFind")
  /\ UNCHANGED <<qpath, qsnap, qread, qbase, engineVars, routeVars,
                 parserVars, limiterVars>>

\* incrementQuota: agentDb.findById settles with the row as it is now.
QIncFind(r) ==
  /\ qpc[r] = "incFind"
  /\ qread' = [qread EXCEPT ![r] = Some(agentRow)]
  /\ QAt(r, "incUpdate")
  /\ UNCHANGED <<qpath, qsnap, qbase, engineVars, routeVars, parserVars,
                 limiterVars>>

\* incrementQuota: the quota that was read, with the counter plus one, is
\* written.
QIncUpdate(r) ==
  /\ qpc[r] = "incUpdate"
  /\ \E a \in qread[r] :
       agentRow' =
         WithQuota(agentRow,
                   [a EXCEPT !.executions_today =
                               Incremented(a.executions_today)])
  /\ QAt(r, "log")
  /\ UNCHANGED <<qpath, qsnap, qread, qbase, engineVars, parserVars,
                 limiterVars, rpc, req, ragent, body, rexec, rquota, resp,
                 rcalls, handler, polled>>

\* activityDb.log settles and executeCode is called.
QSubmit(r) ==
  /\ qpc[r] = "log"
  /\ QAt(r, "submitted")
  /\ UNCHANGED <<qpath, qsnap, qread, qbase, engineVars, routeVars,
                 parserVars, limiterVars>>

QuotaInit ==
  /\ EngineIdle
  /\ ParserIdle
  /\ LimiterIdle
  /\ rpc = "idle"
  /\ req = NoRequest
  /\ agentRow \in QuotaRows
  /\ ragent = Null
  /\ body = Null
  /\ rexec = Null
  /\ rquota = Null
  /\ resp = NoResponse
  /\ rcalls = <<>>
  /\ handler = "none"
  /\ polled = Null
  /\ qpc = [r \in Reqs |-> "idle"]
  /\ qpath = [r \in Reqs |-> ""]
  /\ qsnap = [r \in Reqs |-> Null]
  /\ qread = [r \in Reqs |-> Null]
  /\ qbase = agentRow

QuotaNext ==
  \E r \in Reqs :
    \/ QArrive(r)
    \/ QAuthFind(r)
    \/ QAuthTouch(r)
    \/ QAuthLog(r)
    \/ QQuotaReset(r)
    \/ QCreate(r)
    \/ QIncFind(r)
    \/ QIncUpdate(r)
    \/ QSubmit(r)

QuotaSpec == QuotaInit /\ [][QuotaNext]_vars

-----------------------------------------------------------------------------
\* rateLimit (middleware/auth.ts): the in-memory request counter mounted on
\* the whole application, and the interval that sweeps its Map.

\* maxRequests and windowMs of the mounted limiter, scaled down, and the
\* horizon of the clock and of the count of one record.
MaxRequests == 2
WindowMs == 2
MaxNow == 5
MaxCount == 4

Maximum(a, b) == IF a >= b THEN a ELSE b

\* requestCounts.get(key) when the key has a record.
RecordOf(k) == CHOOSE r \in requestCounts[k] : TRUE

Expired_AtResetAt(rec, t) == t >= rec.resetAt

\* now > record.resetAt
Expired(rec, t) == t > rec.resetAt

\* The record the request counts on: a new one if the key has none or its
\* record has expired.
Current(k) ==
  IF requestCounts[k] = Null \/ Expired(RecordOf(k), now)
  THEN [count |-> 0, resetAt |-> now + WindowMs]
  ELSE RecordOf(k)

\* The window of key k is over: it has no record, or now exceeds resetAt.
WindowOver(k) == requestCounts[k] = Null \/ now > RecordOf(k).resetAt

\* One request of key k through the middleware.
RateLimit(k) ==
  LET counted == [Current(k) EXCEPT !.count = @ + 1]
      before == IF WindowOver(k) THEN 0 ELSE passed[k]
  IN /\ counted.count <= MaxCount
     /\ requestCounts' = [requestCounts EXCEPT ![k] = Some(counted)]
     /\ arrived' = [arrived EXCEPT ![k] = IF WindowOver(k) THEN 1 ELSE @ + 1]
     /\ IF counted.count > MaxRequests
        THEN /\ passed' = [passed EXCEPT ![k] = before]
             /\ remaining' = remaining
        ELSE /\ passed' = [passed EXCEPT ![k] = before + 1]
             /\ remaining' = Some(Maximum(0, MaxRequests - counted.count))
     /\ UNCHANGED <<engineVars, routeVars, parserVars, quotaVars, now>>

\* The interval's callback: delete every expired record.
Cleanup ==
  /\ \E k \in Keys : requestCounts[k] # Null /\ Expired(RecordOf(k), now)
  /\ requestCounts' =
       [k \in Keys |->
          IF requestCounts[k] # Null /\ Expired(RecordOf(k), now)
          THEN Null ELSE requestCounts[k]]
  /\ UNCHANGED <<engineVars, routeVars, parserVars, quotaVars, now, passed,
                 arrived, remaining>>

\* Date.now() advances.
Tick ==
  /\ now < MaxNow
  /\ now' = now + 1
  /\ UNCHANGED <<engineVars, routeVars, parserVars, quotaVars, requestCounts,
                 passed, arrived, remaining>>

LimiterInit == Init

LimiterNext ==
  \/ \E k \in Keys : RateLimit(k)
  \/ Cleanup
  \/ Tick

LimiterSpec == LimiterInit /\ [][LimiterNext]_vars

\* ------------------------------------------------- vocabulary of the claims
Count(e, op) == Len(SelectSeq(calls[e], LAMBDA c : c.op = op))

HasCall(e, op, ok) ==
  \E i \in 1..Len(calls[e]) : calls[e][i].op = op /\ calls[e][i].ok = ok

Updates(e) == SelectSeq(calls[e], LAMBDA c : c.op = "update")

AllCallsOk(e) == \A i \in 1..Len(calls[e]) : calls[e][i].ok

AllUpdatesOk(e) == \A i \in 1..Len(Updates(e)) : Updates(e)[i].ok

LastUpdate(e) == Updates(e)[Len(Updates(e))]

\* The write of 'running' was made and succeeded.
RunningWritten(e) ==
  /\ Updates(e) # <<>>
  /\ Updates(e)[1].arg = "running"
  /\ Updates(e)[1].ok

\* runInContainer has settled: executeCode is past its await.
PastRun(e) == pc[e] \in {"updTerminal", "updFailed", "returned", "thrown"}

\* ---------------------------------------------------------------------- C1
\* C1 as stated: whenever the timer settles the race while the container is
\* still running (the kill succeeds), executeCode returns and persists a
\* timeout outcome: status 'timeout', timedOut true, exit code 124.
C1_TimeoutAlwaysReported ==
  \A e \in Execs :
    (Finished(e) /\ race[e] = "timer" /\ HasCall(e, "kill", TRUE)) =>
      /\ pc[e] = "returned"
      /\ result[e].timedOut
      /\ result[e].exitCode = TimeoutExitCode
      /\ record[e].status = "timeout"

\* C1 amended: whenever the timer settles the race, timedOut is set and kill
\* is issued once on the container; if logs and inspect then succeed,
\* runInContainer returns timedOut true with exit code 124 whatever the
\* container reports; and if the write of that result succeeds too,
\* executeCode returns it and the record holds status 'timeout', exit code 124.
C1_TimeoutOutcome ==
  \A e \in Execs :
    race[e] = "timer" =>
      /\ timedOut[e]
      /\ Count(e, "kill") = (IF pc[e] = "kill" THEN 0 ELSE 1)
      /\ pending[e].kind = "return" =>
           /\ pending[e].value.timedOut
           /\ pending[e].value.exitCode = TimeoutExitCode
           /\ pending[e].value.stdout = locals[e].stdout
      /\ (pc[e] = "returned" /\ pending[e].kind = "return"
            /\ Len(Updates(e)) = 2) =>
           /\ result[e] = pending[e].value
           /\ record[e].status = "timeout"
           /\ record[e].exit_code = Some(TimeoutExitCode)

\* The timer won, the kill succeeded, the container reports 137, and the
\* timeout outcome was returned and persisted.
C1_Witness ==
  \E e \in Execs :
    /\ race[e] = "timer" /\ HasCall(e, "kill", TRUE)
    /\ pc[e] = "returned"
    /\ locals[e].exitCode = 137
    /\ result[e].exitCode = TimeoutExitCode
    /\ record[e].status = "timeout"

\* ---------------------------------------------------------------------- C2
\* C2: if container.wait resolves before the timer fires then, whenever the
\* timer callback runs afterwards, and with no call raising, the result has
\* timedOut false and the inspected exit code, the persisted status is
\* 'completed' and no kill is issued.
C2_NaturalExitWins ==
  \A e \in Execs :
    (pc[e] = "returned" /\ race[e] = "natural" /\ AllCallsOk(e)) =>
      /\ ~result[e].timedOut
      /\ result[e].exitCode = locals[e].exitCode
      /\ record[e].status = "completed"
      /\ Count(e, "kill") = 0

\* ---------------------------------------------------------------------- C3
\* C3: once createContainer has succeeded, container.remove is attempted
\* before runInContainer settles, hence before executeCode returns or throws,
\* on every path; and whether remove succeeds or raises, runInContainer
\* settles with the completion of its try block.
C3_CleanupOnEveryPath ==
  \A e \in Execs :
    /\ (PastRun(e) /\ HasCall(e, "create", TRUE)) => Count(e, "remove") >= 1
    /\ (calls[e] # <<>> /\ calls[e][Len(calls[e])].op = "remove") =>
         /\ pending[e].kind = "return" =>
              pc[e] = "updTerminal" /\ result[e] = pending[e].value
         /\ pending[e].kind = "throw" =>
              pc[e] = "updFailed" /\ result[e] = FailedResult(pending[e].err)

\* inspect raised after a timeout, remove raised too, and executeCode
\* returned the failure of inspect.
C3_Witness ==
  \E e \in Execs :
    /\ pc[e] = "returned"
    /\ race[e] = "timer"
    /\ HasCall(e, "inspect", FALSE)
    /\ HasCall(e, "remove", FALSE)
    /\ pending[e].kind = "throw"
    /\ result[e].stderr = pending[e].err

\* ---------------------------------------------------------------------- C4
\* C4 as stated: every invocation of a registered language whose write of
\* 'running' succeeded, so that runInContainer was entered, creates exactly
\* one container and invokes remove exactly once, whatever the path.
C4_ExactlyOneCreatedAndRemoved ==
  \A e \in Execs :
    (Finished(e) /\ Resolves(language[e]) /\ RunningWritten(e)) =>
      /\ Count(e, "remove") = 1
      /\ HasCall(e, "create", TRUE)

\* C4 amended: an invocation creates at most one container; remove is
\* invoked exactly once when createContainer succeeded and never when it did
\* not; after a successful remove the container no longer exists.
C4_RemoveOncePerContainer ==
  \A e \in Execs :
    /\ Count(e, "create") <= 1
    /\ Count(e, "remove") <= 1
    /\ Count(e, "remove") = 1 => HasCall(e, "create", TRUE)
    /\ PastRun(e) =>
         Count(e, "remove") = (IF HasCall(e, "create", TRUE) THEN 1 ELSE 0)
    /\ HasCall(e, "remove", TRUE) => cstate[e] = "removed"
    /\ HasCall(e, "create", FALSE) => cstate[e] = "none"

\* start raised on a created container and remove was invoked once.
C4_Witness ==
  \E e \in Execs :
    /\ Finished(e)
    /\ HasCall(e, "create", TRUE)
    /\ HasCall(e, "start", FALSE)
    /\ Count(e, "remove") = 1
    /\ cstate[e] = "removed"

\* ---------------------------------------------------------------------- C5
\* C5: if createContainer, start, logs or inspect raises and the Record Store
\* writes succeed, executeCode returns (it does not throw) a result with
\* exit code -1, timedOut false and a non-empty stderr holding the error
\* text; the record holds status 'failed', exit code -1 and that stderr; and
\* when createContainer raised no container exists.
C5_SubstrateFailureBecomesFailed ==
  \A e \in Execs :
    (Finished(e) /\ AllUpdatesOk(e)
       /\ \E op \in {"create", "start", "logs", "inspect"} :
            HasCall(e, op, FALSE)) =>
      /\ pc[e] = "returned"
      /\ result[e].exitCode = -1
      /\ ~result[e].timedOut
      /\ result[e].stderr.len > 0
      /\ pending[e].kind = "throw"
      /\ pending[e].err.len > 0 => result[e].stderr = pending[e].err
      /\ record[e].status = "failed"
      /\ record[e].exit_code = Some(-1)
      /\ record[e].stderr = Some(result[e].stderr)
      /\ HasCall(e, "create", FALSE) => cstate[e] = "none"

\* logs raised an error without a message after the timer had fired:
\* executeCode returned the failed result with the fallback text.
C5_Witness ==
  \E e \in Execs :
    /\ pc[e] = "returned"
    /\ HasCall(e, "logs", FALSE)
    /\ timedOut[e]
    /\ pending[e] = Throw(Empty)
    /\ record[e].status = "failed"

\* ---------------------------------------------------------------------- C6
\* C6: if the final terminal write of an execution fails, executeCode
\* rejects with that failure instead of returning, and the container, if one
\* was created, has been through remove by then; so whenever executeCode
\* returns a result, the last write succeeded and recorded that result's
\* status and exit code.
C6_FinalWriteFailurePropagates ==
  \A e \in Execs :
    /\ (Finished(e) /\ Updates(e) # <<>>
          /\ LastUpdate(e).arg \in TerminalStatuses /\ ~LastUpdate(e).ok) =>
         /\ pc[e] = "thrown"
         /\ thrown[e] = DbErr
         /\ HasCall(e, "create", TRUE) => Count(e, "remove") = 1
    /\ pc[e] = "returned" =>
         /\ LastUpdate(e).ok
         /\ record[e].status = LastUpdate(e).arg
         /\ record[e].status \in TerminalStatuses
         /\ record[e].status = "failed" =>
              result[e].exitCode = FailedExitCode /\ ~result[e].timedOut
         /\ record[e].status # "failed" =>
              record[e].status = TerminalStatus(result[e])
         /\ record[e].exit_code = Some(result[e].exitCode)

\* The write of 'completed' failed, the write of 'failed' failed too, and
\* executeCode rejected after the container had been removed.
C6_Witness ==
  \E e \in Execs :
    /\ pc[e] = "thrown"
    /\ Len(Updates(e)) = 3
    /\ ~LastUpdate(e).ok
    /\ thrown[e] = DbErr
    /\ HasCall(e, "remove", TRUE)

\* ---------------------------------------------------------------------- C7
\* C7: once the language has resolved, the only fault executeCode propagates
\* is a failure of the final (terminal) write: whenever it rejects, its last
\* Record Store call is a failed terminal write.
C7_OnlyFinalWritePropagates ==
  \A e \in Execs :
    (pc[e] = "thrown" /\ Resolves(language[e])) =>
      /\ Updates(e) # <<>>
      /\ LastUpdate(e).arg \in TerminalStatuses
      /\ ~LastUpdate(e).ok

\* ---------------------------------------------------------------------- C8
\* C8: every invocation whose language resolves makes exactly two Record
\* Store update calls: the 'running' transition, then one terminal one.
\* Stated for the invocations whose write of 'running' succeeded (its failure
\* is the case of C7), which leaves the success, timeout, substrate-failure
\* and terminal-write-failure paths.
C8_ExactlyTwoWrites ==
  \A e \in Execs :
    (Finished(e) /\ Resolves(language[e]) /\ RunningWritten(e)) =>
      /\ Len(Updates(e)) = 2
      /\ Updates(e)[1].arg = "running"
      /\ Updates(e)[2].arg \in TerminalStatuses

\* ---------------------------------------------------------------------- C9
Forward(s, t) ==
  \/ s = t
  \/ s = "absent" /\ t = "queued"
  \/ s = "queued" /\ t = "running"
  \/ s = "running" /\ t \in TerminalStatuses

WritesInOrder(e) ==
  \A i \in 1..Len(Updates(e)) :
    /\ Updates(e)[i].arg = "running" <=> i = 1
    /\ Updates(e)[i].arg \in TerminalStatuses =>
         /\ Updates(e)[1].ok
         /\ record[e].status # "queued"
    /\ (Updates(e)[i].arg \in TerminalStatuses /\ Updates(e)[i].ok) =>
         i = Len(Updates(e))

\* C9: the persisted status of an execution only moves queued -> running ->
\* one terminal status; the write of 'running' precedes (and has succeeded
\* before) any terminal write; and after a terminal write has succeeded no
\* further write is made, so the status never changes again.
C9_StatusMovesForward ==
  /\ [][\A e \in Execs : Forward(record[e].status, record'[e].status)]_vars
  /\ [](\A e \in Execs : WritesInOrder(e))

\* The write of 'timeout' failed and the write of 'failed' then succeeded:
\* three writes, and the status went queued -> running -> failed.
C9_Witness ==
  \E e \in Execs :
    /\ Len(Updates(e)) = 3
    /\ Updates(e)[2].arg = "timeout"
    /\ record[e].status = "failed"
    /\ pc[e] = "returned"

\* --------------------------------------------------------------------- C10
\* C10: if the language is not an entry of the registry, executeCode rejects
\* with the unsupported-language error before any container is created and
\* before any Record Store write, leaving the record as it was.
C10_UnsupportedLanguageRejected ==
  \A e \in Execs :
    (pc[e] # "idle" /\ ~Resolves(language[e])) =>
      /\ pc[e] = "thrown"
      /\ thrown[e] = UnsupportedErr(language[e])
      /\ calls[e] = <<>>
      /\ cstate[e] = "none"
      /\ record[e] = QueuedRecord

\* --------------------------------------------------------------------- C11
\* C11: the delay the timer is armed with is min(timeoutMs, MAX_TIMEOUT_MS)
\* and never exceeds MAX_TIMEOUT_MS; for every requested value at or above
\* the ceiling it is exactly the ceiling, and nothing else of an invocation
\* depends on timeoutMs, so the behaviour at ceiling + 10000 is the behaviour
\* at the ceiling.
C11_TimeoutClipped ==
  \A e \in Execs :
    /\ armedMs[e] # Null <=> timer[e] # "unarmed"
    /\ \A d \in armedMs[e] :
         /\ d <= MAX_TIMEOUT_MS
         /\ d <= timeoutMs[e]
         /\ d = timeoutMs[e] \/ d = MAX_TIMEOUT_MS
         /\ timeoutMs[e] >= MAX_TIMEOUT_MS => d = MAX_TIMEOUT_MS

\* An invocation asked for the ceiling + 10000, its timer was armed with the
\* ceiling and won the race.
C11_Witness ==
  \E e \in Execs :
    /\ timeoutMs[e] = MAX_TIMEOUT_MS + 10000
    /\ armedMs[e] = Some(MAX_TIMEOUT_MS)
    /\ race[e] = "timer"
    /\ pc[e] = "returned"

\* --------------------------------------------------------------------- C12
\* C12: in every terminal write (completed, timeout and failed alike) the
\* stdout and stderr fields have length at most 50000, so the persisted
\* stdout and stderr of a record never exceed the ceiling.
C12_PersistedOutputBounded ==
  \A e \in Execs :
    record[e] # NoRecord =>
      \A t \in record[e].stdout \cup record[e].stderr :
        t.len <= OutputCeiling

\* --------------------------------------------------------------------- C13
\* C13: the result executeCode returns after the write of 'completed' or
\* 'timeout' carries the data that write persisted: stdout and stderr
\* (truncated to the ceiling in both), exit code and memory usage.
C13_ReturnedEqualsPersisted ==
  \A e \in Execs :
    (pc[e] = "returned" /\ record[e].status \in {"completed", "timeout"}) =>
      /\ record[e].stdout = Some(result[e].stdout)
      /\ record[e].stderr = Some(result[e].stderr)
      /\ record[e].exit_code = Some(result[e].exitCode)
      /\ record[e].memory_used_mb = Some(result[e].memoryUsedMb)
      /\ result[e].stdout.len <= OutputCeiling
      /\ result[e].stderr.len <= OutputCeiling

RECURSIVE Channel(_, _)
Channel(frames, type) ==
  IF frames = <<>> THEN <<>>
  ELSE (IF Head(frames).type = type THEN Utf8Decode(Head(frames).payload)
        ELSE <<>>) \o Channel(Tail(frames), type)

\* The tail is the beginning of a frame that is not complete: fewer than the
\* 8 bytes of a header, or fewer payload bytes than the header declares.
IncompleteFrame(tail) ==
  /\ Len(tail) > 0
  /\ \/ Len(tail) < 8
     \/ Len(tail) < 8 + ReadUInt32BE(tail, 4)

\* C19: for a buffer made of complete frames only, parseLogs returns as stdout
\* the payloads of the stdout frames concatenated in arrival order, and as
\* stderr the payloads of the stderr frames concatenated in arrival order.
C19_ChannelOrderPreserved ==
  \A r \in pout :
    ptail = <<>> =>
      /\ r.stdout = Channel(pframes, 1)
      /\ r.stderr = Channel(pframes, 2)

\* C20: for a buffer of one or more complete frames followed by an incomplete
\* trailing frame, parseLogs returns exactly what it returns for the complete
\* frames alone.
C20_TruncationTolerated ==
  \A r \in pout :
    (Len(pframes) >= 1 /\ IncompleteFrame(ptail)) =>
      r = ParseLogs(Encode(pframes))

\* ------------------------------------------------- claims on the routes
\* The engine has been invoked for execution e.
Invoked(e) == pc[e] # "idle"

\* C15: on both submission paths the record of an execution is persisted with
\* status 'queued' before executeCode is invoked for it: at the step that
\* invokes the engine the record is 'queued', and at every point after the
\* invocation a record for that id exists.
C15_QueuedBeforeEngine ==
  /\ [](\A e \in Execs : Invoked(e) => record[e] # NoRecord)
  /\ [][\A e \in Execs :
          (~Invoked(e) /\ Invoked(e)') => record[e].status = "queued"]_vars

\* POST /execute/sync has invoked the engine, which is running the container.
C15_Witness ==
  \E e \in rexec :
    /\ req.path = "/execute/sync"
    /\ pc[e] = "race"
    /\ record[e].status = "running"

\* The daily limit is used up: the counter is of today and has reached it.
Exhausted(a) == ~a.stale /\ a.executions_today >= a.max_executions_per_day

\* The request fails a precondition: caller not authenticated or not active,
\* execute permission missing, daily quota or storage used up, unknown
\* language, empty or oversized code, timeout outside the allowed range.
PreconditionFails ==
  \/ req.auth # "valid"
  \/ agentRow.status # "active"
  \/ ~agentRow.can_execute_code
  \/ agentRow.storage_full
  \/ \E a \in ragent : Exhausted(a)
  \/ req.language \notin DOMAIN SUPPORTED_LANGUAGES
  \/ req.code = 0
  \/ req.code > MAX_CODE_SIZE_KB * 1024
  \/ \E n \in req.timeout_ms : n < MIN_TIMEOUT_MS \/ n > MAX_TIMEOUT_MS

\* The response is a rejection by a precondition.
Rejected == resp.code \in {400, 401, 403, 429}

RouteCalled(op) == \E i \in 1..Len(rcalls) : rcalls[i].op = op

\* No record was created, the usage counter was not incremented, the engine
\* was not invoked and no container was created.
NothingStarted ==
  /\ \A e \in Execs :
       /\ record[e] = NoRecord
       /\ ~Invoked(e)
       /\ cstate[e] = "none"
       /\ calls[e] = <<>>
  /\ ~RouteCalled("executions.create")
  /\ ~RouteCalled("agents.update.increment")

\* C16: a request that fails a precondition, and every request answered with
\* a rejection (400, 401, 403, 429), creates no Execution record, does not
\* increment the usage counter, does not invoke the engine and creates no
\* container; it is never answered with 200 or 202.
C16_RejectedBeforeAnyRecord ==
  (req # NoRequest /\ (PreconditionFails \/ Rejected)) =>
    /\ NothingStarted
    /\ resp.code \notin {200, 202}

\* A request with oversized code, from an agent allowed to execute, has been
\* answered 400.
C16_Witness ==
  /\ resp.code = 400
  /\ req.auth = "valid"
  /\ req.code = MAX_CODE_SIZE_KB * 1024 + 1
  /\ NothingStarted

RouteCallOk(op) ==
  \E i \in 1..Len(rcalls) : rcalls[i].op = op /\ rcalls[i].ok

\* C17: POST /execute answers 202 with the execution id and 'queued' at the
\* step that invokes the engine, once the 'queued' record exists and the
\* usage counter is incremented, while the engine has not finished; nothing
\* the engine does later changes the response; the promise of executeCode
\* has a rejection handler from the invocation on; and once the engine has
\* returned, findById on that id reads the terminal status of its result.
C17_AsyncReturnsHandle ==
  /\ [][\A e \in Execs :
          (resp.code = 0 /\ resp'.code = 202) =>
            /\ resp' = AcceptedResponse(e)
            /\ rexec = Some(e)
            /\ record[e].status = "queued"
            /\ RouteCallOk("agents.update.increment")
            /\ ~Invoked(e) /\ Invoked(e)' /\ ~Finished(e)']_vars
  /\ [][resp.code = 202 => resp' = resp]_vars
  /\ [](\A e \in Execs :
          (req.path = "/execute" /\ Invoked(e)) => handler = "thenCatch")
  /\ [](\A e \in Execs :
          (resp.code = 202 /\ pc[e] = "returned") =>
            /\ record[e].status \in TerminalStatuses
            /\ record[e].status = TerminalStatus(result[e])
               \/ (record[e].status = "failed"
                   /\ result[e].exitCode = FailedExitCode))
  /\ [][\A e \in Execs :
          (resp.code = 202 /\ pc[e] = "returned" /\ polled' # polled) =>
            polled' = Some(record[e].status)]_vars

\* After the 202 the engine ran into its time limit and returned, and a poll
\* has read 'timeout'.
C17_Witness ==
  \E e \in rexec :
    /\ resp = AcceptedResponse(e)
    /\ pc[e] = "returned"
    /\ polled = Some("timeout")

\* C18: every 200 of POST /execute/sync is sent after the engine returned,
\* carries a terminal status that is the persisted status of the execution,
\* carries the engine's result, and says 'timeout' exactly when the result's
\* timedOut is true.
C18_SyncRespondsAfterTerminal ==
  resp.code = 200 =>
    \E e \in rexec :
      /\ req.path = "/execute/sync"
      /\ pc[e] = "returned"
      /\ resp.execution_id = Some(e)
      /\ resp.status \in TerminalStatuses
      /\ resp.status = record[e].status
      /\ resp.result = result[e]
      /\ resp.result.kind = "result"
      /\ (resp.status = "timeout") <=> resp.result.timedOut

\* POST /execute/sync has answered 200 for a run the substrate failed.
C18_Witness ==
  /\ resp.code = 200
  /\ resp.status = "failed"
  /\ resp.result.exitCode = FailedExitCode
  /\ \E e \in rexec : HasCall(e, "create", FALSE)

\* The frames that carry output: those with the stdout or stderr selector.
OutputFrames(frames) == SelectSeq(frames, LAMBDA f : f.type \in {1, 2})

\* C21: a frame whose selector is neither 1 nor 2 contributes nothing: for a
\* buffer of complete frames, some of them with another selector, parseLogs
\* returns what it returns for the buffer without those frames.
C21_OtherSelectorsIgnored ==
  \A r \in pout :
    (ptail = <<>> /\ OutputFrames(pframes) # pframes) =>
      r = ParseLogs(Encode(OutputFrames(pframes)))

\* How many frames the loop of parseLogs decodes from the given offset on.
RECURSIVE FramesDecoded(_, _)
FramesDecoded(logs, offset) ==
  IF ~(offset < Len(logs)) \/ offset + 8 > Len(logs) THEN 0
  ELSE IF offset + 8 + ReadUInt32BE(logs, offset + 4) > Len(logs) THEN 0
  ELSE 1 + FramesDecoded(logs, offset + 8 + ReadUInt32BE(logs, offset + 4))

\* parseLogs returned the whole buffer as stdout text.
ReturnedRaw(r) == r.stdout = Utf8Decode(plogs) /\ r.stderr = <<>>

\* C22: parseLogs returns the whole buffer as plain stdout text, with stderr
\* empty, exactly when the buffer is non-empty and no frame decoded.
C22_FallbackIffNoFrameDecoded ==
  \A r \in pout :
    Len(plogs) > 0 =>
      (ReturnedRaw(r) <=> FramesDecoded(plogs, 0) = 0)

\* ------------------------------------------------------------ termination
\* The operations executeCode called, in order.
Ops(e) == [i \in 1..Len(calls[e]) |-> calls[e][i].op]

\* C23: every invocation of executeCode finishes, whether or not the program
\* in the container ever exits; and when the timer settled the race and no
\* call raised, what follows the start of the container is exactly kill,
\* logs, stats, inspect, remove and one write, after which executeCode has
\* returned a timed-out result and the record says 'timeout'.
C23_TerminatesByTimeout ==
  /\ \A e \in Execs : Invoked(e) ~> Finished(e)
  /\ [](\A e \in Execs :
          (race[e] = "timer" /\ Finished(e) /\ AllCallsOk(e)) =>
            /\ pc[e] = "returned"
            /\ Ops(e) = <<"update", "create", "start", "kill", "logs",
                          "stats", "inspect", "remove", "update">>
            /\ result[e].timedOut
            /\ record[e].status = "timeout")

\* A run asked for more than the ceiling was cut at the ceiling by the timer
\* while the program was still running, and returned 'timeout'.
C23_Witness ==
  \E e \in Execs :
    /\ race[e] = "timer" /\ pc[e] = "returned" /\ AllCallsOk(e)
    /\ timeoutMs[e] > MAX_TIMEOUT_MS
    /\ HasCall(e, "kill", TRUE)
    /\ record[e].status = "timeout"

\* ------------------------------------------------------------- 'killed'
\* C24: no Execution record ever has status 'killed', and the engine cancels
\* a run only on timeout expiry: container.kill is issued, or about to be,
\* only after the timer fired and set timedOut.
C24_KilledHasNoProducer ==
  \A e \in Execs :
    /\ record[e].status # "killed"
    /\ record[e].status \in
         {"absent", "queued", "running", "completed", "failed", "timeout"}
    /\ (pc[e] = "kill" \/ Count(e, "kill") > 0) =>
         (timer[e] = "fired" /\ timedOut[e])

\* A submitted run was cut by the timer, its container killed, and the
\* record written as 'timeout'.
C24_Witness ==
  \E e \in rexec :
    /\ HasCall(e, "kill", TRUE)
    /\ cexit[e] = 137
    /\ record[e].status = "timeout"

\* ------------------------------------------------------------ concurrency
\* Everything that belongs to invocation e: its record, its container, its
\* timer and flag, its position, locals, outcome and calls.
Local(e) ==
  <<record[e], pc[e], language[e], langConfig[e], cstate[e], cexit[e],
    timer[e], timedOut[e], race[e], locals[e], pending[e], result[e],
    thrown[e], calls[e], timeoutMs[e], armedMs[e]>>

\* A step of invocation e, of its container or of its timer, as when e runs
\* alone.
SoloStep(e) ==
  \/ CreateExecution(e)
  \/ PairExecute(e)
  \/ EngineStep(e)
  \/ ContainerExits(e)
  \/ AutoRemove(e)
  \/ WaitResolves(e)
  \/ WaitRejects(e)
  \/ TimerFires(e)

\* C25: with two invocations running concurrently, no step changes what
\* belongs to both; whatever belongs to one invocation changes only by a
\* step that invocation could take running alone; and an invocation has
\* timedOut set, or its container killed, only after its own timer fired.
C25_InvocationsIndependent ==
  /\ [][\A e, f \in AllExecs :
          (e # f /\ Local(e)' # Local(e)) => Local(f)' = Local(f)]_vars
  /\ [][\A e \in AllExecs : Local(e)' # Local(e) => SoloStep(e)]_vars
  /\ [](\A e \in AllExecs :
          /\ timedOut[e] => timer[e] = "fired"
          /\ Count(e, "kill") > 0 => timer[e] = "fired"
          /\ (Finished(e) /\ pc[e] = "returned") =>
               record[e].status \in {"completed", "failed", "timeout"})

\* The timer of one invocation has fired and its container is about to be
\* killed while the other invocation's container is still running untouched.
C25_Witness ==
  /\ pc["e1"] = "kill" /\ timedOut["e1"]
  /\ pc["e2"] = "race" /\ ~timedOut["e2"]
  /\ cstate["e1"] = "running" /\ cstate["e2"] = "running"
  /\ timer["e2"] = "armed"

\* -------------------------------------------------------------- 'completed'
\* C26: a record says 'completed' only when container.wait resolved before
\* the timer fired, never when the race was settled by a rejection of wait.
C26_CompletedOnlyAfterNaturalExit ==
  \A e \in Execs :
    record[e].status = "completed" => race[e] = "natural"

\* ------------------------------------------------- status and exit code
\* C27: the persisted terminal status follows the timedOut flag and whether
\* a fault was raised, not the exit code: 'completed' is written with
\* timedOut false and the inspected exit code, whatever it is; 'failed' is
\* written only after a fault, with exit code -1; 'timeout' is written only
\* with timedOut true and exit code 124.
C27_StatusIgnoresExitCode ==
  \A e \in Execs :
    /\ record[e].status = "completed" =>
         /\ record[e].exit_code = Some(locals[e].exitCode)
         /\ pending[e].kind = "return" /\ ~pending[e].value.timedOut
    /\ record[e].status = "failed" =>
         /\ record[e].exit_code = Some(FailedExitCode)
         /\ pending[e].kind = "throw" \/ ~AllCallsOk(e)
    /\ record[e].status = "timeout" =>
         /\ record[e].exit_code = Some(TimeoutExitCode)
         /\ pending[e].kind = "return" /\ pending[e].value.timedOut

\* A program that exited on its own with code 1 is recorded as 'completed'
\* with exit code 1.
C27_Witness ==
  \E e \in Execs :
    /\ race[e] = "natural"
    /\ cexit[e] = 1
    /\ record[e].status = "completed"
    /\ record[e].exit_code = Some(1)

\* ------------------------------------------------------ the usage counter
\* The requests that reached the engine.
Submitted == {r \in Reqs : qpc[r] = "submitted"}

\* No request is between arrival and its end.
QuotaQuiet == \A r \in Reqs : qpc[r] \in {"idle", "submitted", "rejected"}

\* C28: with no daily reset in between, once the requests in flight have
\* ended, executions_today has grown by the number of accepted requests.
C28_EveryAcceptedCounted ==
  (QuotaQuiet /\ ~qbase.stale) =>
    agentRow.executions_today
      = qbase.executions_today + Cardinality(Submitted)

\* C29: the requests of one day that reach the engine, with those the
\* counter already held that day, never exceed max_executions_per_day.
C29_DailyLimitNeverExceeded ==
  (IF qbase.stale THEN 0 ELSE qbase.executions_today)
    + Cardinality(Submitted) <= qbase.max_executions_per_day


\* C30: rateLimit is a fixed-window limiter. In every window of every key at
\* most maxRequests requests are passed to the next handler; every request of
\* the window, rejected ones included, is counted in the record; the reported
\* X-RateLimit-Remaining is never negative; and a record's count restarts (or
\* the record disappears) only once now exceeds its resetAt.
C30_WindowState ==
  /\ \A k \in Keys :
       /\ passed[k] <= MaxRequests
       /\ requestCounts[k] # Null => RecordOf(k).count = arrived[k]
  /\ \A left \in remaining : left >= 0

C30_WindowStep ==
  \A k \in Keys :
    requestCounts[k] # Null =>
      \/ now > RecordOf(k).resetAt
      \/ /\ requestCounts'[k] # Null
         /\ RecordOf(k)'.resetAt = RecordOf(k).resetAt
         /\ RecordOf(k)'.count >= RecordOf(k).count

C30_FixedWindow == []C30_WindowState /\ [][C30_WindowStep]_vars

\* A key whose window has had a request rejected after maxRequests were
\* passed on, in a window that did not start at time zero.
C30_Witness ==
  \E k \in Keys :
    /\ requestCounts[k] # Null
    /\ RecordOf(k).resetAt > WindowMs
    /\ arrived[k] > MaxRequests
    /\ passed[k] = MaxRequests
    /\ remaining = Some(0)

=============================================================================
